---- MODULE Spec2Model ----
(***************************************************************************)
(* Model of the file de-duplicator (src/dedup.c++): main, find_files,      *)
(* find_duplicates, generate_file_hash and handle_duplicates, run against  *)
(* a small filesystem of directory entries (paths) that refer to inodes.   *)
(***************************************************************************)
EXTENDS Integers, Sequences, FiniteSets, TLC

\* ---------------------------------------------------------------- bounds
NumPaths == 4      \* regular files under the root, numbered in traversal order
MaxSize == 2       \* file sizes are 1..MaxSize bytes
MaxVariant == 2    \* distinct byte strings of one size are numbered 0..MaxVariant
MaxTime == 2       \* modification times are 1..MaxTime
HashMod == 2       \* std::hash<std::string> values are 0..HashMod-1
MaxFaults == 1     \* failures of filesystem calls injected into one behaviour
MaxRuns == 2       \* invocations of the program on the same tree

Paths == 1..NumPaths
Inodes == 1..NumPaths
Contents == (1..MaxSize) \X (0..MaxVariant)
Times == 1..MaxTime
Actions == {"--list", "--delete", "--hardlink"}

VARIABLES
    fs,            \* directory entries: path -> inode, 0 when the path is absent
    content,       \* inode -> the bytes stored, <<size, variant>>
    mtime,         \* inode -> last modification time, 0 until the run first reads it
    argc,          \* main's argc
    rootIsDir,     \* argv[1] names an existing directory
    action,        \* main's action string
    pc,            \* position of the run in main
    files,         \* main's files: the catalog find_files returned
    duplicates,    \* main's duplicates: hash -> sequence of FileInfo
    pending,       \* keys of duplicates the loop of handle_duplicates has not visited
    sorted_files,  \* handle_duplicates: paths of the current group, sorted
    it,            \* handle_duplicates: index of the next duplicate in sorted_files
    out,           \* lines written to std::cout and std::cerr, in order
    exitCode,      \* main's return value, -1 while running
    keptOf,        \* path -> the original chosen for its group (history)
    removeResult,  \* path -> outcome of fs::remove on it in this run (history)
    linkResult,    \* path -> outcome of fs::create_hard_link onto it (history)
    faults,        \* failures of filesystem calls injected so far
    run            \* number of the current invocation

vars == <<fs, content, mtime, argc, rootIsDir, action, pc, files, duplicates,
          pending, sorted_files, it, out, exitCode, keptOf, removeResult,
          linkResult, faults, run>>

\* ------------------------------------------------------------ filesystem
Exists(p) == fs[p] # 0
ContentOf(p) == content[fs[p]]
ContentSize(c) == c[1]
\* entry.file_size()
FileSize(p) == ContentSize(ContentOf(p))
\* fs::last_write_time(p), with the inodes' times `mt`
LastWriteTime(mt, p) == mt[fs[p]]

\* std::hash<std::string>{}(content): a function of the bytes into a finite
\* range, so distinct byte strings of one size may share a value.
StdHash(c) == (c[1] + c[2]) % HashMod

\* generate_file_hash: to_string(content.size()) + "_" + to_string(hash)
GenerateFileHash(p) == <<ContentSize(ContentOf(p)), StdHash(ContentOf(p))>>

FileInfo(p, s, h) == [path |-> p, size |-> s, hash |-> h]

\* ------------------------------------------------------------- sequences
Range(s) == {s[i] : i \in 1..Len(s)}
PathsOf(s) == {s[i].path : i \in 1..Len(s)}

RECURSIVE SeqOfSet(_)
\* the elements of a set of numbers as an ascending sequence
SeqOfSet(S) ==
    IF S = {} THEN <<>>
    ELSE LET m == CHOOSE x \in S : \A y \in S : x <= y
         IN <<m>> \o SeqOfSet(S \ {m})

Line(stream, msg, p) == <<stream, msg, p>>

\* ------------------------------------------------------------ find_files
\* The catalog after visiting the entries `visited` of which the file_size
\* of those in `sizeErr` threw: emplace_back in traversal order.
Catalog(visited, sizeErr) ==
    LET ps == SeqOfSet({p \in visited : Exists(p) /\ p \notin sizeErr})
    IN [i \in 1..Len(ps) |-> FileInfo(ps[i], FileSize(ps[i]), "")]

\* "Error accessing" lines of the inner catch, in traversal order
AccessErrors(visited, sizeErr) ==
    LET ps == SeqOfSet({p \in visited : Exists(p) /\ p \in sizeErr})
    IN [i \in 1..Len(ps) |-> Line("cerr", "Error accessing", ps[i])]

\* ------------------------------------------------------- find_duplicates
\* size_groups[file.size].push_back(file)
SizeGroups(fl) ==
    [s \in {fl[i].size : i \in 1..Len(fl)} |->
        SelectSeq(fl, LAMBDA f : f.size = s)]

\* hash_groups of one size bucket: the members generate_file_hash could read,
\* keyed by their hash, each re-created with the bucket's size and its hash.
HashGroups(group, size, readable) ==
    LET ok == SelectSeq(group, LAMBDA f : f.path \in readable)
    IN [h \in {GenerateFileHash(ok[i].path) : i \in 1..Len(ok)} |->
           LET same == SelectSeq(ok, LAMBDA f : GenerateFileHash(f.path) = h)
           IN [i \in 1..Len(same) |-> FileInfo(same[i].path, size, h)]]

\* EmitGroups with a seeded fault: the test is files.size() > 0
EmitGroupsNonEmpty(dup, hg) ==
    LET keys == {h \in DOMAIN hg : Len(hg[h]) > 0}
    IN [h \in (DOMAIN dup) \cup keys |-> IF h \in keys THEN hg[h] ELSE dup[h]]

\* EmitGroups with a seeded fault: a bucket's groups replace those found before
EmitGroupsReplace(dup, hg) ==
    [h \in {k \in DOMAIN hg : Len(hg[k]) > 1} |-> hg[h]]

\* if (files.size() > 1) duplicates[hash] = files;
EmitGroups(dup, hg) ==
    LET keys == {h \in DOMAIN hg : Len(hg[h]) > 1}
    IN [h \in (DOMAIN dup) \cup keys |-> IF h \in keys THEN hg[h] ELSE dup[h]]

\* "Error processing" lines of one bucket, in the bucket's order
HashErrors(group, readable) ==
    LET bad == SelectSeq(group, LAMBDA f : f.path \notin readable)
    IN [i \in 1..Len(bad) |-> Line("cerr", "Error processing", bad[i].path)]

RECURSIVE FindDuplicates(_, _, _, _)
\* The loop over size_groups, visited in `order` (a sequence of the sizes:
\* an unordered_map iterates in no particular order), from the map `acc`.
\* The result is [dup |-> duplicates, log |-> lines written to std::cerr].
FindDuplicates(fl, readable, order, acc) ==
    IF order = <<>> THEN acc
    ELSE LET size == Head(order)
             group == SizeGroups(fl)[size]
         IN IF Len(group) > 1
            THEN FindDuplicates(fl, readable, Tail(order),
                    [dup |-> EmitGroups(acc.dup, HashGroups(group, size, readable)),
                     log |-> acc.log \o HashErrors(group, readable)])
            ELSE FindDuplicates(fl, readable, Tail(order), acc)

EmptyMap == [h \in {} |-> <<>>]

\* the orders in which the elements of a finite set can be visited
Orders(S) ==
    {o \in [1..Cardinality(S) -> S] : \A i, j \in 1..Cardinality(S) : o[i] = o[j] => i = j}

\* the paths find_duplicates passes to generate_file_hash
HashCandidates(fl) ==
    {fl[i].path : i \in {j \in 1..Len(fl) : Len(SizeGroups(fl)[fl[j].size]) > 1}}

\* ------------------------------------------------------ handle_duplicates
\* The results std::sort may leave for the paths `ps` under the comparator
\* last_write_time(a) < last_write_time(b): std::sort is not a stable sort, so
\* any arrangement in which no element precedes an older one is allowed.
SortResults(ps, mt) ==
    {s \in Orders(Range(ps)) :
        \A i, j \in 1..Len(ps) :
            i < j => ~(LastWriteTime(mt, s[j]) < LastWriteTime(mt, s[i]))}

\* The modification times the comparator can read for the paths `ps`: a time
\* read before stays what it was, a time not read yet is any of Times, and
\* the inodes of other paths are not read.
TimesRead(ps) ==
    {mt \in [Inodes -> Times \cup {0}] :
        \A i \in Inodes :
            /\ mtime[i] # 0 => mt[i] = mtime[i]
            /\ (mt[i] # 0) <=> (mtime[i] # 0 \/ \E p \in Range(ps) : fs[p] = i)}

\* const fs::path& original = sorted_files.front();
Original(sorted) == sorted[1]

\* FirstDuplicate with a seeded fault: the loop starts at sorted_files.begin()
FirstDuplicateAtBegin == 2 - 1

\* for (auto it = sorted_files.begin() + 1; ...)
FirstDuplicate == 2

\* the lines a group prints before its duplicates are processed
GroupHeader(h, sorted) ==
    <<Line("cout", "Duplicate group", h), Line("cout", "Hash", h),
      Line("cout", "Original", Original(sorted))>>

\* the outcomes of fs::remove(p): the entry is removed; there was no entry
\* (returns false and does not throw); or it throws filesystem_error
RemoveOutcomes == {"removed", "absent", "error"}
\* the outcomes of fs::create_hard_link(original, p)
LinkOutcomes == {"linked", "error"}
Fault(outcome) == IF outcome \in {"absent", "error"} THEN 1 ELSE 0

\* AfterRemove with a seeded fault: the entry is never removed
AfterRemoveKeeps(f, p, r) == f

\* the directory entries after fs::remove(p)
AfterRemove(f, p, r) == IF r = "error" THEN f ELSE [f EXCEPT ![p] = 0]
\* the directory entries after fs::create_hard_link(original, p)
AfterLink(f, original, p, l) == IF l = "linked" THEN [f EXCEPT ![p] = f[original]] ELSE f

\* action == "--delete": try { remove; "Deleted" } catch { "Delete failed" }
DeleteReport(p, r) ==
    IF r = "error" THEN <<Line("cerr", "Delete failed", p)>>
    ELSE <<Line("cout", "Deleted", p)>>

\* HardlinkReport with a seeded fault: a throw of create_hard_link is swallowed
HardlinkReportIgnoresLink(p, r, l) ==
    IF r = "error" THEN <<Line("cerr", "Hardlink failed", p)>>
    ELSE <<Line("cout", "Created hardlink", p)>>

\* action == "--hardlink": try { remove; create_hard_link; "Created hardlink" }
\* catch { "Hardlink failed" }
HardlinkReport(p, r, l) ==
    IF r = "error" \/ l = "error" THEN <<Line("cerr", "Hardlink failed", p)>>
    ELSE <<Line("cout", "Created hardlink", p)>>

\* ------------------------------------------------------------------ main
ArgSet ==
    {<<1, FALSE, "--list">>, <<2, FALSE, "--list">>, <<2, TRUE, "--list">>}
    \cup {<<3, TRUE, a>> : a \in Actions}

NoResults == [p \in Paths |-> "none"]
NoKept == [p \in Paths |-> 0]

Init ==
    /\ fs = [p \in Paths |-> p]
    /\ content \in [Inodes -> Contents]
    /\ mtime = [i \in Inodes |-> 0]
    /\ \E a \in ArgSet : argc = a[1] /\ rootIsDir = a[2] /\ action = a[3]
    /\ pc = "main"
    /\ files = <<>>
    /\ duplicates = EmptyMap
    /\ pending = {}
    /\ sorted_files = <<>>
    /\ it = 0
    /\ out = <<>>
    /\ exitCode = -1
    /\ keptOf = NoKept
    /\ removeResult = NoResults
    /\ linkResult = NoResults
    /\ faults = 0
    /\ run = 1

Exit(code) == pc' = "exit" /\ exitCode' = code

\* if (argc < 2) { usage; return 1; }
Usage ==
    /\ pc = "main" /\ argc < 2
    /\ out' = out \o <<Line("cout", "Usage", 0)>>
    /\ Exit(1)
    /\ UNCHANGED <<fs, content, mtime, argc, rootIsDir, action, files, duplicates,
                   pending, sorted_files, it, keptOf, removeResult, linkResult, faults, run>>

\* if (!fs::exists(directory) || !fs::is_directory(directory)) return 1;
InvalidDirectory ==
    /\ pc = "main" /\ argc >= 2 /\ ~rootIsDir
    /\ out' = out \o <<Line("cerr", "Invalid directory", 0)>>
    /\ Exit(1)
    /\ UNCHANGED <<fs, content, mtime, argc, rootIsDir, action, files, duplicates,
                   pending, sorted_files, it, keptOf, removeResult, linkResult, faults, run>>

\* The entries the range-for of find_files reaches: all of them, or, when the
\* iterator throws filesystem_error on its way (a directory it may not open),
\* those before it, the outer catch being outside the loop.
Visited(aborted, k) == IF aborted THEN 1..k ELSE Paths

\* auto files = find_files(directory);
FindFiles ==
    /\ pc = "main" /\ argc >= 2 /\ rootIsDir
    /\ \E aborted \in BOOLEAN, k \in 0..NumPaths :
         /\ ~aborted => k = NumPaths
         /\ \E sizeErr \in SUBSET {p \in Visited(aborted, k) : Exists(p)} :
              /\ faults + Cardinality(sizeErr) + (IF aborted THEN 1 ELSE 0) <= MaxFaults
              /\ faults' = faults + Cardinality(sizeErr) + (IF aborted THEN 1 ELSE 0)
              /\ files' = Catalog(Visited(aborted, k), sizeErr)
              /\ out' = out \o <<Line("cout", "Scanning directory", 0)>>
                            \o AccessErrors(Visited(aborted, k), sizeErr)
                            \o (IF aborted THEN <<Line("cerr", "Filesystem error", k)>>
                                ELSE <<>>)
                            \o <<Line("cout", "Found files", Len(files'))>>
    /\ pc' = "find_duplicates"
    /\ UNCHANGED <<fs, content, mtime, argc, rootIsDir, action, duplicates, pending,
                   sorted_files, it, exitCode, keptOf, removeResult, linkResult, run>>

\* auto duplicates = find_duplicates(files); if (duplicates.empty()) return 0;
FindDuplicatesCall ==
    /\ pc = "find_duplicates"
    /\ \E unreadable \in SUBSET HashCandidates(files) :
       \E order \in Orders(DOMAIN SizeGroups(files)) :
         LET readable == Paths \ unreadable
             res == FindDuplicates(files, readable, order, [dup |-> EmptyMap, log |-> <<>>])
         IN /\ faults + Cardinality(unreadable) <= MaxFaults
            /\ faults' = faults + Cardinality(unreadable)
            /\ duplicates' = res.dup
            /\ pending' = DOMAIN res.dup
            /\ IF DOMAIN res.dup = {}
               THEN /\ out' = out \o res.log \o <<Line("cout", "No duplicates found", 0)>>
                    /\ Exit(0)
               ELSE /\ out' = out \o res.log
                               \o <<Line("cout", "Found groups", Cardinality(DOMAIN res.dup))>>
                    /\ pc' = "handle"
                    /\ UNCHANGED exitCode
    /\ UNCHANGED <<fs, content, mtime, argc, rootIsDir, action, files, sorted_files,
                   it, keptOf, removeResult, linkResult, run>>

\* One iteration of the loop over duplicates, up to the loop over the group's
\* duplicates: the header, the sort and the choice of the original.
BeginGroup ==
    /\ pc = "handle" /\ pending # {}
    /\ \E h \in pending :
         LET ps == [i \in 1..Len(duplicates[h]) |-> duplicates[h][i].path]
         IN \E mt \in TimesRead(ps) : \E s \in SortResults(ps, mt) :
              /\ mtime' = mt
              /\ sorted_files' = s
              /\ keptOf' = [p \in Paths |-> IF p \in Range(s) THEN Original(s) ELSE keptOf[p]]
              /\ out' = out \o GroupHeader(h, s)
              /\ pending' = pending \ {h}
    /\ it' = FirstDuplicate
    /\ pc' = "loop"
    /\ UNCHANGED <<fs, content, argc, rootIsDir, action, files, duplicates,
                   exitCode, removeResult, linkResult, faults, run>>

\* fs::last_write_time throws inside the comparator of std::sort: nothing in
\* handle_duplicates catches it, main's catch prints it and returns 1.
SortThrows ==
    /\ pc = "handle" /\ pending # {}
    /\ faults < MaxFaults
    /\ \E h \in pending : \E p \in PathsOf(duplicates[h]) :
         out' = out \o <<Line("cout", "Duplicate group", h), Line("cout", "Hash", h),
                         Line("cerr", "Error", p)>>
    /\ faults' = faults + 1
    /\ Exit(1)
    /\ UNCHANGED <<fs, content, mtime, argc, rootIsDir, action, files, duplicates,
                   pending, sorted_files, it, keptOf, removeResult, linkResult, run>>

\* where the run goes after the duplicate at `it`
Advance ==
    /\ it' = it + 1
    /\ pc' = IF it < Len(sorted_files) THEN "loop" ELSE "handle"
    /\ UNCHANGED <<content, mtime, argc, rootIsDir, action, files, duplicates, pending,
                   sorted_files, exitCode, keptOf, run>>

\* the body of the inner loop when the action is neither --delete nor --hardlink
ListDuplicate ==
    /\ pc = "loop" /\ it <= Len(sorted_files)
    /\ action \notin {"--delete", "--hardlink"}
    /\ out' = out \o <<Line("cout", "Duplicate", sorted_files[it])>>
    /\ Advance
    /\ UNCHANGED <<fs, removeResult, linkResult, faults>>

\* the body of the inner loop for --delete
DeleteDuplicate ==
    /\ pc = "loop" /\ it <= Len(sorted_files)
    /\ action = "--delete"
    /\ LET p == sorted_files[it]
       IN \E r \in RemoveOutcomes :
            /\ faults + Fault(r) <= MaxFaults
            /\ faults' = faults + Fault(r)
            /\ fs' = AfterRemove(fs, p, r)
            /\ removeResult' = [removeResult EXCEPT ![p] = r]
            /\ out' = out \o <<Line("cout", "Duplicate", p)>> \o DeleteReport(p, r)
    /\ Advance
    /\ UNCHANGED linkResult

\* the body of the inner loop for --hardlink
HardlinkDuplicate ==
    /\ pc = "loop" /\ it <= Len(sorted_files)
    /\ action = "--hardlink"
    /\ LET p == sorted_files[it]
           original == Original(sorted_files)
       IN \E r \in RemoveOutcomes, l \in LinkOutcomes \cup {"none"} :
            /\ (l = "none") <=> (r = "error")
            /\ faults + Fault(r) + Fault(l) <= MaxFaults
            /\ faults' = faults + Fault(r) + Fault(l)
            /\ fs' = AfterLink(AfterRemove(fs, p, r), original, p, l)
            /\ removeResult' = [removeResult EXCEPT ![p] = r]
            /\ linkResult' = [linkResult EXCEPT ![p] = l]
            /\ out' = out \o <<Line("cout", "Duplicate", p)>> \o HardlinkReport(p, r, l)
    /\ Advance

\* handle_duplicates returns; return 0;
Return ==
    /\ pc = "handle" /\ pending = {}
    /\ Exit(0)
    /\ UNCHANGED <<fs, content, mtime, argc, rootIsDir, action, files, duplicates,
                   pending, sorted_files, it, out, keptOf, removeResult, linkResult, faults, run>>

\* a run in delete mode that has returned 0 and in which no call failed
CleanDeleteRun ==
    /\ pc = "exit" /\ exitCode = 0
    /\ argc >= 2 /\ rootIsDir /\ action = "--delete"
    /\ faults = 0

\* the program is invoked again on the tree a clean delete run left
Rerun ==
    /\ CleanDeleteRun /\ run < MaxRuns
    /\ run' = run + 1
    /\ \E a \in ArgSet : argc' = a[1] /\ rootIsDir' = a[2] /\ action' = a[3]
    /\ pc' = "main"
    /\ files' = <<>>
    /\ duplicates' = EmptyMap
    /\ pending' = {}
    /\ sorted_files' = <<>>
    /\ it' = 0
    /\ out' = <<>>
    /\ exitCode' = -1
    /\ keptOf' = NoKept
    /\ removeResult' = NoResults
    /\ linkResult' = NoResults
    /\ UNCHANGED <<fs, content, mtime, faults>>

Next ==
    \/ Usage
    \/ InvalidDirectory
    \/ FindFiles
    \/ FindDuplicatesCall
    \/ BeginGroup
    \/ SortThrows
    \/ ListDuplicate
    \/ DeleteDuplicate
    \/ HardlinkDuplicate
    \/ Return

Spec == Init /\ [][Next]_vars

NextRerun == Next \/ Rerun

SpecRerun == Init /\ [][NextRerun]_vars

\* ============================================================ properties
Scanned == pc \in {"handle", "loop", "exit"} /\ argc >= 2 /\ rootIsDir
ValidRoot == argc >= 2 /\ rootIsDir

Reported(stream, msg, p) == \E i \in 1..Len(out) : out[i] = Line(stream, msg, p)
Count(stream, msg, p) == Cardinality({i \in 1..Len(out) : out[i] = Line(stream, msg, p)})

\* In the first run path p still names the inode it named at the start.
Untouched(p) == fs[p] = p /\ removeResult[p] = "none" /\ linkResult[p] = "none"
\* the bytes, size and digest of the file path p named when the run started
TrueContent(p) == content[p]
TrueSize(p) == ContentSize(content[p])
TrueDigest(p) == <<ContentSize(content[p]), StdHash(content[p])>>

Groups == {PathsOf(duplicates[h]) : h \in DOMAIN duplicates}
Grouped == UNION Groups
KeptPaths == {keptOf[p] : p \in Paths} \ {0}
SupersededPaths == {p \in Paths : keptOf[p] # 0 /\ keptOf[p] # p}
GroupOf(p) == {q \in Paths : keptOf[q] = keptOf[p]}

\* C1: in every mode the run changes no directory entry but those of the
\* superseded members of a duplicate group: the kept path of every group and
\* the paths in no group keep their inode, and no remove or link was applied
\* to them; with action --list (also the default) no path changes at all.
C1_OnlySupersededTouched ==
    run = 1 =>
      /\ \A p \in Paths : ~Untouched(p) => (p \in SupersededPaths /\ p \in Grouped)
      /\ \A k \in KeptPaths : Untouched(k) /\ k \in Grouped
      /\ action \notin {"--delete", "--hardlink"} => \A p \in Paths : Untouched(p)

C1_Witness ==
    /\ pc = "exit" /\ run = 1 /\ action = "--delete"
    /\ \E p, q \in Paths :
         /\ removeResult[p] = "removed" /\ ~Exists(p)
         /\ keptOf[p] # 0 /\ Exists(keptOf[p])
         /\ keptOf[q] = 0 /\ Exists(q)

\* C2: every group find_duplicates returns has at least 2 members, all with
\* the same recorded size and hash, and the files they name have the same
\* true size and digest; so no group holds two files of distinct sizes.
C2_GroupsUniform ==
    (run = 1 /\ Scanned) =>
      \A h \in DOMAIN duplicates :
        /\ Len(duplicates[h]) >= 2
        /\ Cardinality(PathsOf(duplicates[h])) = Len(duplicates[h])
        /\ \A i, j \in 1..Len(duplicates[h]) :
             /\ duplicates[h][i].size = duplicates[h][j].size
             /\ duplicates[h][i].hash = duplicates[h][j].hash
             /\ duplicates[h][i].hash = h
             /\ TrueSize(duplicates[h][i].path) = TrueSize(duplicates[h][j].path)
             /\ TrueDigest(duplicates[h][i].path) = TrueDigest(duplicates[h][j].path)
             /\ duplicates[h][i].size = TrueSize(duplicates[h][i].path)

C2_Witness ==
    /\ run = 1 /\ pc = "handle"
    /\ \E g, h \in DOMAIN duplicates : g[1] # h[1]

\* the cataloged files generate_file_hash did not fail on
HashFailed == {p \in Paths : Reported("cerr", "Error processing", p)}
Readable == PathsOf(files) \ HashFailed
\* the classes of 2 or more readable files of one size and digest
DigestClasses ==
    {c \in {{q \in Readable : TrueSize(q) = TrueSize(p) /\ TrueDigest(q) = TrueDigest(p)} :
              p \in Readable} : Cardinality(c) >= 2}

\* C3 (amended): the groups find_duplicates emits are exactly the classes of
\* 2 or more members of the files it could hash under "same size and same
\* digest"; a file whose hashing failed is in no group; a catalog in which no
\* two readable files share size and digest yields zero groups.
C3_GroupsAreDigestClasses ==
    (run = 1 /\ Scanned) =>
      /\ Groups = DigestClasses
      /\ Cardinality(DOMAIN duplicates) = Cardinality(Groups)
      /\ Grouped \cap HashFailed = {}

C3_Witness ==
    /\ run = 1 /\ pc = "handle"
    /\ \E p \in HashFailed : \E g \in Groups : \A q \in g : TrueSize(q) = TrueSize(p)
    /\ \E p, q \in Grouped : p # q /\ TrueContent(p) = TrueContent(q)

\* C3 as stated: the above, and a tree with no two files of the same content
\* yields zero groups.
C3_NoDuplicateContentNoGroups ==
    (run = 1 /\ Scanned) =>
      /\ Groups = DigestClasses
      /\ (\A p, q \in Paths : p # q => TrueContent(p) # TrueContent(q))
            => DOMAIN duplicates = {}

\* the position of path p in the catalog: its rank in discovery order
Pos(p) == CHOOSE i \in 1..Len(files) : files[i].path = p

\* C4: the original of every group is a member with the oldest modification
\* time, the first-seen one among those with that time, and the sorted order
\* keeps discovery order between members of equal time.
C4_KeptOldestFirstSeen ==
    run = 1 =>
      /\ \A p \in Paths : keptOf[p] # 0 =>
           \A q \in GroupOf(p) :
             /\ mtime[keptOf[p]] <= mtime[q]
             /\ mtime[q] = mtime[keptOf[p]] => Pos(keptOf[p]) <= Pos(q)
      /\ pc = "loop" =>
           \A i, j \in 1..Len(sorted_files) :
             (i < j /\ mtime[sorted_files[i]] = mtime[sorted_files[j]])
                => Pos(sorted_files[i]) < Pos(sorted_files[j])

\* the members whose modification time could not be read during the sort
MtimeFailed == {p \in Paths : Reported("cerr", "Error", p)}

\* C5: when the modification time of a member cannot be read, the run goes
\* on: it ends with status 0 and every group visited, and the member is not
\* the original of its group.
C5_MtimeFailureContained ==
    (pc = "exit" /\ MtimeFailed # {}) =>
      /\ exitCode = 0
      /\ pending = {}
      /\ \A p \in MtimeFailed : keptOf[p] # 0 /\ keptOf[p] # p

\* C6: in hardlink mode a link is only attempted after the path was removed;
\* a failed link leaves the path absent and is reported as "Hardlink failed",
\* never as "Created hardlink"; "Created hardlink" is reported only for a
\* path that exists and names the inode, hence the bytes, of the original.
C6_HardlinkReportFaithful ==
    run = 1 =>
      \A p \in Paths :
        /\ linkResult[p] # "none" => removeResult[p] \in {"removed", "absent"}
        /\ linkResult[p] = "error" =>
             /\ ~Exists(p)
             /\ Reported("cerr", "Hardlink failed", p)
             /\ ~Reported("cout", "Created hardlink", p)
        /\ Reported("cout", "Created hardlink", p) =>
             /\ linkResult[p] = "linked"
             /\ keptOf[p] # 0 /\ keptOf[p] # p
             /\ Exists(p) /\ fs[p] = fs[keptOf[p]]
             /\ content[fs[p]] = TrueContent(keptOf[p])
        /\ Count("cout", "Created hardlink", p) + Count("cerr", "Hardlink failed", p) <= 1

C6_Witness ==
    /\ run = 1 /\ pc = "exit" /\ action = "--hardlink"
    /\ \E p, q \in Paths :
         /\ linkResult[p] = "error" /\ ~Exists(p)
         /\ linkResult[q] = "linked" /\ Reported("cout", "Created hardlink", q)

\* C7: in delete mode a remove that did not delete the file (it threw, or the
\* file was gone) is reported as "Delete failed" and not as "Deleted", and a
\* run that ends has attempted every superseded member of every group once.
C7_DeleteFailureReported ==
    (run = 1 /\ action = "--delete") =>
      /\ \A p \in Paths : removeResult[p] \in {"absent", "error"} =>
           /\ Reported("cerr", "Delete failed", p)
           /\ ~Reported("cout", "Deleted", p)
      /\ (pc = "exit" /\ exitCode = 0 /\ ValidRoot) =>
           \A p \in Grouped : keptOf[p] # p =>
             /\ Count("cout", "Duplicate", p) = 1
             /\ removeResult[p] # "none"

\* C8: after the walk every regular file under the root is in the catalog,
\* except those whose own entry failed and was reported.
C8_WalkSkipsOnlyBadEntries ==
    (run = 1 /\ pc = "find_duplicates") =>
      \A p \in Paths : Exists(p) =>
        (p \in PathsOf(files) \/ Reported("cerr", "Error accessing", p))

\* C9: the run returns 1 exactly when the root argument is missing or not a
\* directory, and then nothing was scanned or changed; with a valid root it
\* returns 0 with every group visited.
C9_ExitStatus ==
    (run = 1 /\ pc = "exit") =>
      /\ (exitCode = 1) <=> ~ValidRoot
      /\ ~ValidRoot => (files = <<>> /\ \A p \in Paths : Untouched(p))
      /\ ValidRoot => (exitCode = 0 /\ pending = {})

\* C10: when a delete run in which no call failed has ended, exactly the
\* original of every group still exists; a run on the tree it left finds no
\* duplicate group, applies no remove and no link, and returns 0.
C10_DeleteReachesFixedPoint ==
    /\ CleanDeleteRun =>
         \A h \in DOMAIN duplicates :
           \E k \in PathsOf(duplicates[h]) :
             /\ \A p \in PathsOf(duplicates[h]) : keptOf[p] = k
             /\ {p \in PathsOf(duplicates[h]) : Exists(p)} = {k}
    /\ run > 1 =>
         /\ pc \notin {"handle", "loop"}
         /\ DOMAIN duplicates = {}
         /\ \A p \in Paths : removeResult[p] = "none" /\ linkResult[p] = "none"
         /\ (pc = "exit" /\ ValidRoot) => exitCode = 0

C10_Witness ==
    /\ run > 1 /\ pc = "exit" /\ ValidRoot /\ exitCode = 0
    /\ Len(files) >= 2
    /\ \E p \in Paths : ~Exists(p)

====
